---- MODULE Spec2Model ----
(***************************************************************************)
(* A model of three-body's bake pipeline (src/src/main.rs): the integrator *)
(* (step, apply_forces, update), the simulator (simulate,                  *)
(* simulate_closed), the frequency analyzer (fft_to_freq, optimize), the   *)
(* reconstructor (inverse_analyze, FrequencyComponent::sample) and the     *)
(* parallel batch of main.                                                 *)
(*                                                                         *)
(* Numbers.  The program computes in f64.  The model computes in exact     *)
(* integer arithmetic:                                                     *)
(*   - an amplitude or a blend weight is a rational [num, den];            *)
(*   - an angle is a whole number of "ticks", a fixed fraction of a turn;  *)
(*   - an FFT bin is a Gaussian integer on one of the two axes, so that    *)
(*     its magnitude sqrt(re^2 + im^2) and its atan2 are exact;            *)
(*   - positions and velocities are fixed-point vectors <<x, y>> counted   *)
(*     in units of 1/ONE.                                                  *)
(***************************************************************************)
EXTENDS Integers, Sequences, FiniteSets, TLC

VARIABLES
    \* ---- frequency analyzer / reconstructor (one body) ----
    fft_bins,       \* the body's FFT output, bin 0 .. N-1 (1-indexed: bin k at k+1)
    frequencies,    \* BakedBody.frequencies
    cutoff,         \* the cutoff optimize was called with, or NoCutoff
    reconstructed,  \* inverse_analyze's result: per sample, the terms it sums
    fpc,            \* "fft" -> "analyzed" -> ("optimized" ->) "reconstructed"
    \* ---- integrator: one call of step(dt, bodies) ----
    bodies,         \* the body list step mutates in place
    step_dt,        \* step's dt
    entry,          \* the body list as it was when step was entered
    body_idx,       \* apply_forces' outer loop variable `body` (1-based)
    other_idx,      \* apply_forces' inner loop variable `other` (1-based)
    spc,            \* "call" -> "apply_forces" -> "update" -> "returned"
    \* ---- simulator: one call of simulate_closed(config, orbit) ----
    sim_config,     \* SimulationConfig [frames, subframes]
    orbit,          \* Orbit [initial_conds, period]
    forwards,       \* simulate(config, orbit), once that task of the join is done
    backwards,      \* simulate(config, reversed), once that task of the join is done
    closed,         \* what simulate_closed returned, or its panic
    cpc,            \* "call" -> "returned" | "panicked"
    \* ---- main: the batch of orbits baked in parallel ----
    config_orbit,   \* Config.orbit, the OrbitConfigs in file order
    nworkers,       \* the number of threads of the rayon pool
    iter_next,      \* the next item of the iterator par_bridge shares
    workers,        \* per thread: what it does, the item it holds, what it collected
    baked,          \* per item: what bake returned for it, once it has
    orbits,         \* main's `orbits`, once collect has returned
    stdout,         \* the names of the orbits written, in order
    mpc             \* "baking" -> "done" | "panicked"

freqVars == <<fft_bins, frequencies, cutoff, reconstructed, fpc>>
stepVars == <<bodies, step_dt, entry, body_idx, other_idx, spc>>
simVars == <<sim_config, orbit, forwards, backwards, closed, cpc>>
mainVars == <<config_orbit, nworkers, iter_next, workers, baked, orbits, stdout, mpc>>

\* what each component's actions leave alone
notFreqVars == <<stepVars, simVars, mainVars>>
notStepVars == <<freqVars, simVars, mainVars>>
notSimVars == <<freqVars, stepVars, mainVars>>
notMainVars == <<freqVars, stepVars, simVars>>

vars == <<fft_bins, frequencies, cutoff, reconstructed, fpc,
          bodies, step_dt, entry, body_idx, other_idx, spc,
          sim_config, orbit, forwards, backwards, closed, cpc,
          config_orbit, nworkers, iter_next, workers, baked, orbits, stdout, mpc>>

(***************************************************************************)
(* Bounds of the model.                                                    *)
(***************************************************************************)
MaxFrameNum == 5    \* largest trajectory length N analysed
MaxBodies == 3      \* largest number of bodies stepped
ONE == 500          \* fixed-point resolution: the real 1.0
MicroSteps == 2     \* integrator steps per recorded sample (10000 in main.rs 326-327)
MaxFrames == 2      \* largest SimulationConfig.frames
MaxSubframes == 2   \* largest SimulationConfig.subframes
MaxSimBodies == 2   \* largest number of bodies of a simulated orbit
MaxOrbits == 3      \* largest number of orbits in the configuration
MaxWorkers == 2     \* largest number of threads of the rayon pool
MainFrames == 1     \* main's SimulationConfig.frames (140 in main.rs 17)
MainSubframes == 2  \* main's SimulationConfig.subframes (100 in main.rs 18)

(***************************************************************************)
(* Exact rationals.                                                        *)
(***************************************************************************)
Rat(n, d) == [num |-> n, den |-> d]
RatGT(a, b) == a.num * b.den > b.num * a.den

\* f64::sqrt, rounded down to a whole number: the largest r with r * r <= n
RECURSIVE SqrtSearch(_, _, _)
SqrtSearch(n, lo, hi) ==
    IF lo >= hi THEN lo
    ELSE LET mid == (lo + hi + 1) \div 2
         IN IF mid * mid <= n THEN SqrtSearch(n, mid, hi)
            ELSE SqrtSearch(n, lo, mid - 1)
ISqrt(n) == SqrtSearch(n, 0, IF n < 46340 THEN n ELSE 46340)

\* division rounding toward zero, the same for a value and its negation
TDiv(a, b) == IF a >= 0 THEN a \div b ELSE -((-a) \div b)

\* f64::atan2(y, x) in quarter turns, on the axes (atan2(0, 0) = 0;
\* atan2(0, x < 0) is pi up to the sign of the zero, the same angle either way)
Atan2Q(y, x) ==
    IF y = 0 THEN (IF x < 0 THEN 2 ELSE 0)
    ELSE IF y > 0 THEN 1 ELSE -1

Complex64(re, im) == [re |-> re, im |-> im]

\* the FFT bins the model analyses: the origin and one bin in each of the four
\* axis directions, of magnitudes 0, 1 and 2
AxisComplex ==
    {Complex64(r, 0) : r \in {-2, 0, 1}} \cup {Complex64(0, i) : i \in {-1, 2}}

(***************************************************************************)
(* fft_to_freq (main.rs 147-163).  idx is the 0-based bin index.           *)
(***************************************************************************)
FrequencyComponent(freq, amplitude, phase) ==
    [freq |-> freq, amplitude |-> amplitude, phase |-> phase]

\* mutant: the phase taken without negating the imaginary part
fft_to_freq_phase(idx, fft, frame_num) ==
    LET half == frame_num \div 2
        freq == IF idx = 0 THEN 0
                ELSE IF idx < half THEN -idx
                ELSE frame_num - idx
    IN FrequencyComponent(
           freq,
           Rat(ISqrt(fft.im * fft.im + fft.re * fft.re), frame_num),
           Atan2Q(fft.im, fft.re))

fft_to_freq(idx, fft, frame_num) ==
    LET half == frame_num \div 2
        freq == IF idx = 0 THEN 0
                ELSE IF idx < half THEN -idx
                ELSE frame_num - idx
    IN FrequencyComponent(
           freq,
           Rat(ISqrt(fft.im * fft.im + fft.re * fft.re), frame_num),
           Atan2Q(-fft.im, fft.re))

(***************************************************************************)
(* analyze (main.rs 134-144), for one body: every bin through fft_to_freq. *)
(***************************************************************************)
analyze_body(bins) ==
    [k \in 1..Len(bins) |-> fft_to_freq(k - 1, bins[k], Len(bins))]

(***************************************************************************)
(* BakedBody::optimize (main.rs 211-216): retain amplitude > cutoff.       *)
(***************************************************************************)
optimize(freqs, cut) ==
    SelectSeq(freqs, LAMBDA f : RatGT(f.amplitude, cut))

(***************************************************************************)
(* FrequencyComponent::sample (main.rs 233-236), at = idx / frames.        *)
(* theta = TAU * at * freq + phase; the result is the vector of length     *)
(* amplitude at angle -theta.  Angles are in ticks of 1/(4 * at.den) turn: *)
(* TAU * at * freq is 4 * at.num * freq ticks, a quarter turn at.den ticks.*)
(***************************************************************************)
sample(self, at) ==
    LET theta == 4 * at.num * self.freq + self.phase * at.den
    IN [angle |-> (-theta) % (4 * at.den), amplitude |-> self.amplitude]

(***************************************************************************)
(* inverse_analyze (main.rs 165-175): for idx in 0..frames, the sum over   *)
(* the body's components of sample(idx / frames).  The model keeps the     *)
(* terms of each sum, in order, instead of adding them.                    *)
(***************************************************************************)
inverse_analyze(frames, freqs) ==
    [i \in 1..frames |->
        [c \in 1..Len(freqs) |-> sample(freqs[c], Rat(i - 1, frames))]]

(***************************************************************************)
(* DVec2 in fixed point: x and y count 1/ONE.  nan marks the non-finite    *)
(* vector a division by a zero length produces; it propagates through      *)
(* every operation, as NaN does.                                           *)
(***************************************************************************)
DVec2(x, y) == [x |-> x, y |-> y, nan |-> FALSE]
NaNVec == [x |-> 0, y |-> 0, nan |-> TRUE]
VAdd(a, b) == IF a.nan \/ b.nan THEN NaNVec ELSE DVec2(a.x + b.x, a.y + b.y)
VSub(a, b) == IF a.nan \/ b.nan THEN NaNVec ELSE DVec2(a.x - b.x, a.y - b.y)
VNeg(a) == IF a.nan THEN NaNVec ELSE DVec2(-a.x, -a.y)
\* the product of a vector and a fixed-point scalar
VMul(a, k) == IF a.nan THEN NaNVec ELSE DVec2(TDiv(a.x * k, ONE), TDiv(a.y * k, ONE))
\* |a|^2, counted in 1/(ONE * ONE).  Beyond Far in either coordinate the square
\* leaves the model's integers: the value is then FarSquared, larger than every
\* squared length the model compares it with and a divisor that makes every
\* force of the model zero.
Far == 30000
FarSquared == 2 * Far * Far
Abs(k) == IF k < 0 THEN -k ELSE k
length_squared(a) ==
    IF Abs(a.x) > Far \/ Abs(a.y) > Far THEN FarSquared ELSE a.x * a.x + a.y * a.y

Body(mass, position, velocity) ==
    [mass |-> mass, position |-> position, velocity |-> velocity]

(***************************************************************************)
(* The body of apply_forces' inner loop (main.rs 430-440) for the pair     *)
(* (body, other): both velocities change, no position does.                *)
(*   force = mass / r2, delta = delta.normalize(),                         *)
(*   body.velocity -= dt * force * delta; other.velocity += the same.      *)
(* Coincident positions give r2 = 0: force is infinite, the normalized     *)
(* delta is NaN and so are both velocities.                                *)
(***************************************************************************)
impulse(dt, body, other) ==
    LET delta == VSub(body.position, other.position)
        mass == body.mass * other.mass
        r2 == length_squared(delta)
    IN IF delta.nan \/ r2 = 0 THEN NaNVec
       ELSE LET force == TDiv(mass * ONE * ONE * ONE, r2)
                len == ISqrt(r2)
                normalized == DVec2(TDiv(delta.x * ONE, len), TDiv(delta.y * ONE, len))
            IN IF TDiv(dt * force, ONE) = 0 THEN DVec2(0, 0)
               ELSE VMul(normalized, TDiv(dt * force, ONE))

\* mutant: the pair's force also moves `body` at once, before the other pairs
force_pair_moving(dt, bs, body, other) ==
    LET imp == impulse(dt, bs[body], bs[other])
        v == VSub(bs[body].velocity, imp)
    IN [bs EXCEPT ![body].velocity = v,
                  ![body].position = VAdd(bs[body].position, VMul(v, dt)),
                  ![other].velocity = VAdd(bs[other].velocity, imp)]

force_pair(dt, bs, body, other) ==
    LET imp == impulse(dt, bs[body], bs[other])
    IN [bs EXCEPT ![body].velocity = VSub(bs[body].velocity, imp),
                  ![other].velocity = VAdd(bs[other].velocity, imp)]

(***************************************************************************)
(* apply_forces (main.rs 427-443): every pair body < other, in loop order. *)
(***************************************************************************)
RECURSIVE apply_forces_from(_, _, _, _)
apply_forces_from(dt, bs, body, other) ==
    IF body > Len(bs) THEN bs
    ELSE IF other > Len(bs) THEN apply_forces_from(dt, bs, body + 1, body + 2)
    ELSE apply_forces_from(dt, force_pair(dt, bs, body, other), body, other + 1)

apply_forces(dt, bs) == apply_forces_from(dt, bs, 1, 2)

(***************************************************************************)
(* update (main.rs 445-449): position += velocity * dt, for every body.    *)
(***************************************************************************)
update(dt, bs) ==
    [i \in 1..Len(bs) |->
        [bs[i] EXCEPT !.position = VAdd(bs[i].position, VMul(bs[i].velocity, dt))]]

(***************************************************************************)
(* step (main.rs 422-425).                                                 *)
(***************************************************************************)
step(dt, bs) == update(dt, apply_forces(dt, bs))

(***************************************************************************)
(* One call of step, statement by statement.                               *)
(***************************************************************************)
Points == {DVec2(0, 0), DVec2(ONE, 0), DVec2(0, ONE), DVec2(-ONE, -ONE)}
Velocities == {DVec2(0, 0), DVec2(ONE \div 2, -ONE)}
Masses == {1, 2}
Timesteps == {ONE \div 10, ONE \div 4}

\* the positions of a body list must be pairwise distinct (spec 4.1)
InitStep ==
    /\ \E n \in 1..MaxBodies :
         \E ms \in [1..n -> Masses], ps \in [1..n -> Points], vs \in [1..n -> Velocities] :
            /\ \A i, j \in 1..n : i # j => ps[i] # ps[j]
            /\ bodies = [i \in 1..n |-> Body(ms[i], ps[i], vs[i])]
    /\ step_dt \in Timesteps
    /\ entry = bodies
    /\ body_idx = 0
    /\ other_idx = 0
    /\ spc = "call"

\* step is entered: apply_forces starts its outer loop
StepEnter ==
    /\ spc = "call"
    /\ entry' = bodies
    /\ body_idx' = 1
    /\ other_idx' = 2
    /\ spc' = "apply_forces"
    /\ UNCHANGED <<bodies, step_dt>>
    /\ UNCHANGED notStepVars

\* one iteration of the inner loop
ApplyForcesPair ==
    /\ spc = "apply_forces"
    /\ body_idx <= Len(bodies)
    /\ other_idx <= Len(bodies)
    /\ bodies' = force_pair(step_dt, bodies, body_idx, other_idx)
    /\ other_idx' = other_idx + 1
    /\ UNCHANGED <<step_dt, entry, body_idx, spc>>
    /\ UNCHANGED notStepVars

\* the inner loop is over: the outer loop goes to the next body
ApplyForcesNextBody ==
    /\ spc = "apply_forces"
    /\ body_idx <= Len(bodies)
    /\ other_idx > Len(bodies)
    /\ body_idx' = body_idx + 1
    /\ other_idx' = body_idx + 2
    /\ UNCHANGED <<bodies, step_dt, entry, spc>>
    /\ UNCHANGED notStepVars

\* apply_forces returns, update runs
ApplyForcesReturn ==
    /\ spc = "apply_forces"
    /\ body_idx > Len(bodies)
    /\ spc' = "update"
    /\ UNCHANGED <<bodies, step_dt, entry, body_idx, other_idx>>
    /\ UNCHANGED notStepVars

Update ==
    /\ spc = "update"
    /\ bodies' = update(step_dt, bodies)
    /\ spc' = "returned"
    /\ UNCHANGED <<step_dt, entry, body_idx, other_idx>>
    /\ UNCHANGED notStepVars

IdleStep ==
    /\ bodies = <<>>
    /\ step_dt = 0
    /\ entry = <<>>
    /\ body_idx = 0
    /\ other_idx = 0
    /\ spc = "idle"

NextStep ==
    \/ StepEnter
    \/ ApplyForcesPair
    \/ ApplyForcesNextBody
    \/ ApplyForcesReturn
    \/ Update

(***************************************************************************)
(* simulate (main.rs 315-337): the initial sample, then one sample per     *)
(* sub-step, each after MicroSteps calls of step(timestep / MicroSteps).   *)
(***************************************************************************)
SimulationConfig(frames, subframes) == [frames |-> frames, subframes |-> subframes]
Orbit(name, initial_conds, period) ==
    [name |-> name, initial_conds |-> initial_conds, period |-> period]

positions_of(bs) == [i \in 1..Len(bs) |-> bs[i].position]

RECURSIVE micro_steps(_, _, _)
micro_steps(dt, bs, n) ==
    IF n = 0 THEN bs ELSE micro_steps(dt, step(dt, bs), n - 1)

RECURSIVE simulate_frames(_, _, _, _)
simulate_frames(timestep, bs, history, n) ==
    IF n = 0 THEN history
    ELSE LET moved == micro_steps(TDiv(timestep, MicroSteps), bs, MicroSteps)
         IN simulate_frames(timestep, moved, Append(history, positions_of(moved)), n - 1)

\* mutant: the initial sample is not recorded
simulate_no_first(config, orb) ==
    LET frame_num == config.frames * config.subframes
        timestep == TDiv(orb.period, frame_num)
    IN simulate_frames(timestep, orb.initial_conds, <<>>, frame_num)

simulate(config, orb) ==
    LET frame_num == config.frames * config.subframes
        timestep == TDiv(orb.period, frame_num)
        first == positions_of(orb.initial_conds)
    IN simulate_frames(timestep, orb.initial_conds, <<first>>, frame_num)

(***************************************************************************)
(* rms_error (main.rs 339-344): the sum over the zipped pairs of           *)
(* distance_squared / lhs.len(), counted in 1/(ONE * ONE).  NaNError       *)
(* stands for the NaN a non-finite position gives.                         *)
(***************************************************************************)
NaNError == -1

RECURSIVE rms_sum(_, _, _)
rms_sum(lhs, rhs, i) ==
    IF i > Len(lhs) \/ i > Len(rhs) THEN 0
    ELSE TDiv(length_squared(VSub(lhs[i], rhs[i])), Len(lhs)) + rms_sum(lhs, rhs, i + 1)

rms_error(lhs, rhs) ==
    IF \E i \in 1..Len(lhs) : i <= Len(rhs) /\ (lhs[i].nan \/ rhs[i].nan)
    THEN NaNError
    ELSE rms_sum(lhs, rhs, 1)

(***************************************************************************)
(* transpose (main.rs 346-356) with Clone::clone: frame-major to           *)
(* body-major.  positions[0] exists wherever the model calls it.           *)
(***************************************************************************)
transpose(positions) ==
    [b \in 1..Len(positions[1]) |-> [f \in 1..Len(positions) |-> positions[f][b]]]

Reverse(seq) == [i \in 1..Len(seq) |-> seq[Len(seq) + 1 - i]]
Pop(seq) == SubSeq(seq, 1, Len(seq) - 1)

\* DVec2::lerp(rhs, s) = self + (rhs - self) * s, with s = num / den
lerp(self, rhs, s) ==
    LET d == VSub(rhs, self)
    IN IF d.nan THEN NaNVec
       ELSE VAdd(self, DVec2(TDiv(d.x * s.num, s.den), TDiv(d.y * s.num, s.den)))

\* mutant: the samples counted from 1, so that the last weight is 1
blend_weight_from_one(idx, frame_num) == Rat(idx + 1, frame_num)

\* the blend weight of 0-based sample idx (main.rs 304-305)
blend_weight(idx, frame_num) == Rat(idx, frame_num)

(***************************************************************************)
(* simulate_closed (main.rs 276-313), after the join of the two            *)
(* simulations: reverse, pop, the closing assertion, the blend.            *)
(***************************************************************************)
reversed_orbit(orb) ==
    [orb EXCEPT !.initial_conds =
        [i \in 1..Len(orb.initial_conds) |->
            [orb.initial_conds[i] EXCEPT !.velocity = VNeg(orb.initial_conds[i].velocity)]]]

\* 0.001, counted in 1/(ONE * ONE) (main.rs 299)
ErrorLimit == TDiv(ONE * ONE, 1000)

close_orbit(fwd_raw, bwd_raw) ==
    LET fwd == Pop(fwd_raw)
        bwd == Pop(Reverse(bwd_raw))
        forwards_error == transpose(fwd)
        backwards_error == transpose(bwd)
        errors == [b \in 1..Len(forwards_error) |->
                      rms_error(forwards_error[b], backwards_error[b])]
        frame_num == Len(fwd)
        blends == [i \in 1..frame_num |-> blend_weight(i - 1, frame_num)]
    IN IF \E b \in 1..Len(errors) : errors[b] = NaNError \/ ~(errors[b] < ErrorLimit)
       THEN [status |-> "panicked", trajectory |-> <<>>, blends |-> <<>>,
             pure_forward |-> fwd, pure_backward |-> bwd]
       ELSE [status |-> "returned",
             trajectory |-> [i \in 1..frame_num |->
                               [b \in 1..Len(fwd[i]) |-> lerp(fwd[i][b], bwd[i][b], blends[i])]],
             blends |-> blends,
             pure_forward |-> fwd, pure_backward |-> bwd]

\* (each simulation is bound to a value once, then closed)
simulate_closed(config, orb) ==
    CHOOSE result \in
        {close_orbit(fwd_raw, bwd_raw) :
            fwd_raw \in {simulate(config, orb)},
            bwd_raw \in {simulate(config, reversed_orbit(orb))}} : TRUE

(***************************************************************************)
(* One call of simulate_closed: the two tasks of rayon::join in either     *)
(* order, then the rest of the function.                                   *)
(***************************************************************************)
NotRun == <<>>
Periods == {ONE \div 50, ONE \div 4}
SimVelocities == {DVec2(0, 0), DVec2(ONE \div 20, 0), DVec2(0, -ONE)}

\* where the bodies of a simulated orbit start: pairwise distinct points
StartPoints == <<DVec2(0, 0), DVec2(ONE, 0), DVec2(0, ONE), DVec2(-ONE, -ONE)>>

Orbits(maxn) ==
    UNION {
        {Orbit("orbit", [i \in 1..n |-> Body(ms[i], StartPoints[i], vs[i])], per) :
            ms \in [1..n -> Masses],
            vs \in [1..n -> SimVelocities],
            per \in Periods} : n \in 1..maxn}

InitSim ==
    /\ \E f \in 1..MaxFrames, sf \in 1..MaxSubframes : sim_config = SimulationConfig(f, sf)
    /\ orbit \in Orbits(MaxSimBodies)
    /\ forwards = NotRun
    /\ backwards = NotRun
    /\ closed = NotRun
    /\ cpc = "call"

SimulateForwards ==
    /\ cpc = "call"
    /\ forwards = NotRun
    /\ forwards' = simulate(sim_config, orbit)
    /\ UNCHANGED <<sim_config, orbit, backwards, closed, cpc>>
    /\ UNCHANGED notSimVars

SimulateBackwards ==
    /\ cpc = "call"
    /\ backwards = NotRun
    /\ backwards' = simulate(sim_config, reversed_orbit(orbit))
    /\ UNCHANGED <<sim_config, orbit, forwards, closed, cpc>>
    /\ UNCHANGED notSimVars

CloseOrbit ==
    /\ cpc = "call"
    /\ forwards # NotRun
    /\ backwards # NotRun
    /\ closed' = close_orbit(forwards, backwards)
    /\ cpc' = closed'.status
    /\ UNCHANGED <<sim_config, orbit, forwards, backwards>>
    /\ UNCHANGED notSimVars

IdleSim ==
    /\ sim_config = SimulationConfig(0, 0)
    /\ orbit = Orbit("", <<>>, 0)
    /\ forwards = NotRun
    /\ backwards = NotRun
    /\ closed = NotRun
    /\ cpc = "idle"

NextSim ==
    \/ SimulateForwards
    \/ SimulateBackwards
    \/ CloseOrbit

(***************************************************************************)
(* OrbitConfig::to_orbit (main.rs 89-117): the three lists zipped, so as   *)
(* many bodies as the shortest list has.                                   *)
(***************************************************************************)
OrbitConfig(name, period, energy, masses, positions, velocities) ==
    [name |-> name, period |-> period, energy |-> energy,
     masses |-> masses, positions |-> positions, velocities |-> velocities]

Min(a, b) == IF a < b THEN a ELSE b

to_orbit(self) ==
    LET n == Min(Min(Len(self.masses), Len(self.positions)), Len(self.velocities))
    IN Orbit(self.name,
             [i \in 1..n |-> Body(self.masses[i], self.positions[i], self.velocities[i])],
             self.period)

(***************************************************************************)
(* bake (main.rs 42-72).  It panics where simulate_closed panics, and at   *)
(* transpose(&compressed) (main.rs 63, positions[0] of main.rs 347) when   *)
(* the orbit has no body; otherwise it returns the BakedOrbit.  The model  *)
(* keeps the number of baked bodies, not their frequency sets, and counts  *)
(* the calls of step the two simulations made.                             *)
(***************************************************************************)
BakedOrbit(name, period, energy, nbodies) ==
    [name |-> name, period |-> period, energy |-> energy, bodies |-> nbodies]

bake(config, orbit_config) ==
    LET orb == to_orbit(orbit_config)
        simulated == simulate_closed(config, orb)
        steps == 2 * config.frames * config.subframes * MicroSteps
    IN IF simulated.status = "panicked" \/ Len(orb.initial_conds) = 0
       THEN [status |-> "panicked", sim_steps |-> steps,
             value |-> BakedOrbit("", 0, 0, 0)]
       ELSE [status |-> "returned", sim_steps |-> steps,
             value |-> BakedOrbit(orbit_config.name, orbit_config.period,
                                  orbit_config.energy, Len(orb.initial_conds))]

(***************************************************************************)
(* main (main.rs 13-40).  config.orbit.iter().par_bridge().map(bake)       *)
(* .collect(): every thread of the pool takes the next item of the shared  *)
(* iterator, bakes it and keeps the result in its own part of the          *)
(* collection; collect joins the parts in the order of the threads.  A     *)
(* panic of bake ends its thread's part and is raised again in main when   *)
(* the threads are joined.                                                 *)
(***************************************************************************)
Names == <<"figure8", "butterfly", "moth", "yarn", "goggles", "dragonfly">>

\* the orbit configurations of the model, before they are named
Shapes ==
    { \* one body at rest
      OrbitConfig("", ONE, 0, <<1>>, <<DVec2(0, 0)>>, <<DVec2(0, 0)>>),
      \* one body that does not come back
      OrbitConfig("", ONE, 1, <<1>>, <<DVec2(0, 0)>>, <<DVec2(0, -ONE)>>),
      \* two bodies far apart, at rest
      OrbitConfig("", ONE \div 10, 2, <<1, 2>>, <<DVec2(-ONE, -ONE), DVec2(ONE, 0)>>,
                  <<DVec2(0, 0), DVec2(0, 0)>>),
      \* two masses, one position, one velocity
      OrbitConfig("", ONE, 3, <<1, 2>>, <<DVec2(0, 0)>>, <<DVec2(0, 0)>>),
      \* one mass, two positions, no velocity
      OrbitConfig("", ONE, 4, <<1>>, <<DVec2(0, 0), DVec2(ONE, 0)>>, <<>>) }

MainConfig == SimulationConfig(MainFrames, MainSubframes)

Worker(state, item, part) == [state |-> state, item |-> item, part |-> part]

InitMain ==
    /\ \E n \in 1..MaxOrbits : \E shapes \in [1..n -> Shapes] :
          config_orbit = [i \in 1..n |-> [shapes[i] EXCEPT !.name = Names[i]]]
    /\ nworkers \in 1..MaxWorkers
    /\ iter_next = 1
    /\ workers = [w \in 1..nworkers |-> Worker("idle", 0, <<>>)]
    /\ baked = [i \in 1..Len(config_orbit) |-> NotRun]
    /\ orbits = NotRun
    /\ stdout = NotRun
    /\ mpc = "baking"

\* a thread takes the next item of the shared iterator
TakeItem(w) ==
    /\ mpc = "baking"
    /\ workers[w].state = "idle"
    /\ iter_next <= Len(config_orbit)
    /\ workers' = [workers EXCEPT ![w].state = "baking", ![w].item = iter_next]
    /\ iter_next' = iter_next + 1
    /\ UNCHANGED <<config_orbit, nworkers, baked, orbits, stdout, mpc>>
    /\ UNCHANGED notMainVars

\* the thread's call of bake returns or panics
BakeItem(w) ==
    /\ mpc = "baking"
    /\ workers[w].state = "baking"
    /\ \E r \in {bake(MainConfig, config_orbit[workers[w].item])} :
          /\ baked' = [baked EXCEPT ![workers[w].item] = r]
          /\ workers' =
                IF r.status = "panicked"
                THEN [workers EXCEPT ![w].state = "panicked"]
                ELSE [workers EXCEPT ![w].state = "idle",
                                     ![w].part = Append(workers[w].part, r.value)]
    /\ UNCHANGED <<config_orbit, nworkers, iter_next, orbits, stdout, mpc>>
    /\ UNCHANGED notMainVars

RECURSIVE concat_parts(_, _)
concat_parts(ws, w) ==
    IF w > Len(ws) THEN <<>> ELSE ws[w].part \o concat_parts(ws, w + 1)

AllJoined ==
    /\ \A w \in 1..nworkers : workers[w].state # "baking"
    /\ \/ iter_next > Len(config_orbit)
       \/ \A w \in 1..nworkers : workers[w].state = "panicked"

\* collect returns: the rest of main builds the document and writes it
CollectAndWrite ==
    /\ mpc = "baking"
    /\ AllJoined
    /\ \A w \in 1..nworkers : workers[w].state # "panicked"
    /\ orbits' = concat_parts(workers, 1)
    /\ stdout' = [i \in 1..Len(orbits') |-> orbits'[i].name]
    /\ mpc' = "done"
    /\ UNCHANGED <<config_orbit, nworkers, iter_next, workers, baked>>
    /\ UNCHANGED notMainVars

\* collect raises a thread's panic again: main ends without writing
CollectPanics ==
    /\ mpc = "baking"
    /\ AllJoined
    /\ \E w \in 1..nworkers : workers[w].state = "panicked"
    /\ mpc' = "panicked"
    /\ UNCHANGED <<config_orbit, nworkers, iter_next, workers, baked, orbits, stdout>>
    /\ UNCHANGED notMainVars

IdleMain ==
    /\ config_orbit = <<>>
    /\ nworkers = 0
    /\ iter_next = 0
    /\ workers = <<>>
    /\ baked = <<>>
    /\ orbits = NotRun
    /\ stdout = NotRun
    /\ mpc = "idle"

NextMain ==
    \/ \E w \in 1..nworkers : TakeItem(w)
    \/ \E w \in 1..nworkers : BakeItem(w)
    \/ CollectAndWrite
    \/ CollectPanics

(***************************************************************************)
(* The analyzer as a state machine.                                        *)
(***************************************************************************)
NoCutoff == Rat(-1, 1)
Cutoffs == {Rat(0, 1), Rat(1, 1000), Rat(1, 2)}   \* bake uses 0.001 (main.rs 51)

InitFreq ==
    /\ \E n \in 1..MaxFrameNum : fft_bins \in [1..n -> AxisComplex]
    /\ frequencies = <<>>
    /\ cutoff = NoCutoff
    /\ reconstructed = <<>>
    /\ fpc = "fft"

Analyze ==
    /\ fpc = "fft"
    /\ frequencies' = analyze_body(fft_bins)
    /\ fpc' = "analyzed"
    /\ UNCHANGED <<fft_bins, cutoff, reconstructed>>
    /\ UNCHANGED notFreqVars

Optimize ==
    /\ fpc = "analyzed"
    /\ \E c \in Cutoffs :
        /\ frequencies' = optimize(frequencies, c)
        /\ cutoff' = c
    /\ fpc' = "optimized"
    /\ UNCHANGED <<fft_bins, reconstructed>>
    /\ UNCHANGED notFreqVars

InverseAnalyze ==
    /\ fpc \in {"analyzed", "optimized"}
    /\ reconstructed' = inverse_analyze(Len(fft_bins), frequencies)
    /\ fpc' = "reconstructed"
    /\ UNCHANGED <<fft_bins, frequencies, cutoff>>
    /\ UNCHANGED notFreqVars

IdleFreq ==
    /\ fft_bins = <<>>
    /\ frequencies = <<>>
    /\ cutoff = NoCutoff
    /\ reconstructed = <<>>
    /\ fpc = "idle"

NextFreq ==
    \/ Analyze
    \/ Optimize
    \/ InverseAnalyze

(***************************************************************************)
(* The specifications: one per component.                                  *)
(***************************************************************************)
InitSpecFreq ==
    /\ InitFreq
    /\ IdleStep
    /\ IdleSim
    /\ IdleMain
InitSpecStep ==
    /\ InitStep
    /\ IdleFreq
    /\ IdleSim
    /\ IdleMain
InitSpecSim ==
    /\ InitSim
    /\ IdleFreq
    /\ IdleStep
    /\ IdleMain
InitSpecMain ==
    /\ InitMain
    /\ IdleFreq
    /\ IdleStep
    /\ IdleSim

SpecFreq == InitSpecFreq /\ [][NextFreq]_vars
SpecStep == InitSpecStep /\ [][NextStep]_vars
SpecSim == InitSpecSim /\ [][NextSim]_vars
SpecMain == InitSpecMain /\ [][NextMain]_vars

(***************************************************************************)
(* Claims about the analyzer and the reconstructor (SpecFreq).             *)
(***************************************************************************)
FrameNum == Len(fft_bins)

\* the argument of an axis bin in quarter turns, and its magnitude
ArgQ(z) ==
    IF z.im = 0 THEN (IF z.re < 0 THEN 2 ELSE 0)
    ELSE IF z.im > 0 THEN 1 ELSE 3
Mag(z) == IF z.re # 0 THEN (IF z.re < 0 THEN -z.re ELSE z.re)
          ELSE (IF z.im < 0 THEN -z.im ELSE z.im)

\* C1: after BakedBody::optimize(cutoff) the component with freq = 0
\* is still present in the frequency set, whatever its amplitude.
C1_DCPreserved ==
    fpc = "optimized" => \E c \in 1..Len(frequencies) : frequencies[c].freq = 0

\* C7: bin 0 has frequency 0 and every bin k with 0 < k < N/2, N/2 the
\* real-valued half (2k < N), has a negative frequency, for even and odd N.
C7_LowerHalfNegativeReal ==
    fpc = "analyzed" =>
        /\ frequencies[1].freq = 0
        /\ \A k \in 1..(FrameNum - 1) : 2 * k < FrameNum => frequencies[k + 1].freq < 0

\* C8: without truncation, inverse_analyze at N samples yields N samples, and
\* at every sample i the term of bin k is the inverse DFT's term X_k e^(2 pi i k / N) / N:
\* the frequency is congruent to -k modulo N, the amplitude is |X_k| / N and the
\* angle is 2 pi i k / N + arg X_k (in ticks of 1/(4N) turn: 4 i k + N arg X_k).
C8_RoundTrip ==
    (fpc = "reconstructed" /\ cutoff = NoCutoff) =>
        /\ Len(reconstructed) = FrameNum
        /\ \A i \in 0..(FrameNum - 1) :
              /\ Len(reconstructed[i + 1]) = FrameNum
              /\ \A k \in 0..(FrameNum - 1) :
                    /\ (frequencies[k + 1].freq + k) % FrameNum = 0
                    /\ reconstructed[i + 1][k + 1].amplitude
                           = Rat(Mag(fft_bins[k + 1]), FrameNum)
                    /\ reconstructed[i + 1][k + 1].angle
                           = (4 * i * k + FrameNum * ArgQ(fft_bins[k + 1])) % (4 * FrameNum)

C8_Witness ==
    /\ fpc = "reconstructed"
    /\ cutoff = NoCutoff
    /\ FrameNum = 5
    /\ fft_bins[3] = Complex64(0, 2)
    /\ reconstructed[4][3].angle = 9

(***************************************************************************)
(* Claims about the integrator (SpecStep).                                 *)
(***************************************************************************)
\* the change of body i's velocity since step was entered
VelocityChange(i) == VSub(bodies[i].velocity, entry[i].velocity)

\* C5: for two bodies of any positive masses, apply_forces (and so
\* step) changes the two momenta mass * velocity by equal and opposite amounts.
C5_MomentumChangesCancel ==
    (Len(bodies) = 2 /\ spc \in {"update", "returned"}) =>
        /\ bodies[1].mass * VelocityChange(1).x + bodies[2].mass * VelocityChange(2).x = 0
        /\ bodies[1].mass * VelocityChange(1).y + bodies[2].mass * VelocityChange(2).y = 0

\* the impulses on body i of all pairs, each computed from the positions as they
\* were when step was entered
RECURSIVE EntryImpulses(_, _)
EntryImpulses(i, j) ==
    IF j > Len(entry) THEN DVec2(0, 0)
    ELSE LET rest == EntryImpulses(i, j + 1)
         IN IF j = i THEN rest
            ELSE IF i < j THEN VSub(rest, impulse(step_dt, entry[i], entry[j]))
            ELSE VAdd(rest, impulse(step_dt, entry[j], entry[i]))

\* C9: within one call of step no position changes before every pairwise force
\* is applied, every velocity update is computed from the positions at entry, and
\* only then every position moves by velocity * dt.
C9_SamePositionSnapshot ==
    /\ spc \in {"apply_forces", "update"} =>
          \A i \in 1..Len(bodies) : bodies[i].position = entry[i].position
    /\ spc \in {"update", "returned"} =>
          \A i \in 1..Len(bodies) :
              bodies[i].velocity = VAdd(entry[i].velocity, EntryImpulses(i, 1))
    /\ spc = "returned" =>
          \A i \in 1..Len(bodies) :
              bodies[i].position =
                  VAdd(entry[i].position, VMul(bodies[i].velocity, step_dt))

C9_Witness ==
    /\ spc = "returned"
    /\ Len(bodies) = 3
    /\ \A i \in 1..3 :
          /\ bodies[i].velocity # entry[i].velocity
          /\ bodies[i].position # entry[i].position

(***************************************************************************)
(* Claims about the simulator (SpecSim).                                   *)
(***************************************************************************)
ConfigFrameNum == sim_config.frames * sim_config.subframes
One == Rat(1, 1)

\* C6 (as claimed): the blend weight is 0 at the first sample and exactly 1 at the
\* last sample of the output, where the output is the pure backward position.
C6_BlendReachesOne ==
    cpc = "returned" =>
        /\ closed.blends[1] = Rat(0, Len(closed.trajectory))
        /\ closed.blends[Len(closed.trajectory)].num = closed.blends[Len(closed.trajectory)].den

\* C6 (amended): the blend weight of sample idx is idx / frame_num: 0 at the first
\* sample, whose output is the pure forward position (the orbit's initial
\* positions), rising by 1 / frame_num per sample to (frame_num - 1) / frame_num,
\* less than 1, at the last sample.
C6_BlendBelowOne ==
    cpc = "returned" =>
        LET n == Len(closed.trajectory)
        IN /\ \A i \in 1..n : closed.blends[i] = Rat(i - 1, n)
           /\ closed.trajectory[1] = closed.pure_forward[1]
           /\ closed.trajectory[1] = positions_of(orbit.initial_conds)
           /\ closed.blends[n] = Rat(n - 1, n)
           /\ RatGT(One, closed.blends[n])

C6_Witness ==
    /\ cpc = "returned"
    /\ Len(closed.trajectory) = 4
    /\ closed.blends[4] = Rat(3, 4)
    /\ closed.pure_forward[4] # closed.pure_backward[4]
    /\ closed.trajectory[4] # closed.pure_backward[4]

\* C10: simulate returns frames * subframes + 1 frames and simulate_closed
\* returns frames * subframes frames, each frame with one position per body.
C10_TrajectoryLengths ==
    /\ forwards # NotRun =>
          /\ Len(forwards) = ConfigFrameNum + 1
          /\ \A f \in 1..Len(forwards) : Len(forwards[f]) = Len(orbit.initial_conds)
    /\ backwards # NotRun =>
          /\ Len(backwards) = ConfigFrameNum + 1
          /\ \A f \in 1..Len(backwards) : Len(backwards[f]) = Len(orbit.initial_conds)
    /\ cpc = "returned" =>
          /\ Len(closed.trajectory) = ConfigFrameNum
          /\ Len(closed.trajectory) = Len(forwards) - 1
          /\ \A f \in 1..Len(closed.trajectory) :
                Len(closed.trajectory[f]) = Len(orbit.initial_conds)

C10_Witness ==
    /\ cpc = "returned"
    /\ sim_config = SimulationConfig(2, 2)
    /\ Len(orbit.initial_conds) = 2
    /\ Len(forwards) = 5
    /\ Len(closed.trajectory) = 4

(***************************************************************************)
(* Claims about the batch (SpecMain).                                      *)
(***************************************************************************)
Mismatched(c) ==
    ~(Len(c.masses) = Len(c.positions) /\ Len(c.positions) = Len(c.velocities))

\* C2: when one orbit's bake fails, every other orbit of the batch
\* still has its result produced: the failure never aborts the batch.
C2_FailureIsolated ==
    mpc \in {"done", "panicked"} =>
        \A i \in 1..Len(config_orbit) :
            (baked[i] # NotRun /\ baked[i].status = "returned") =>
                \E j \in 1..Len(stdout) : stdout[j] = config_orbit[i].name

\* C3: for an OrbitConfig whose three lists do not have the same
\* length, bake reports a failure before any simulation step is run.
C3_InvalidFailsFast ==
    \A i \in 1..Len(config_orbit) :
        (baked[i] # NotRun /\ Mismatched(config_orbit[i])) =>
            /\ baked[i].status = "panicked"
            /\ baked[i].sim_steps = 0

\* C4: the i-th element of the collected list is the result
\* computed from the i-th orbit of the configuration, whatever the interleaving.
C4_IndexOrder ==
    mpc = "done" =>
        /\ Len(orbits) = Len(config_orbit)
        /\ \A i \in 1..Len(orbits) : orbits[i].name = config_orbit[i].name

====
